---- MODULE Spec2Model ----
(***************************************************************************)
(* Box-office prediction: the temporal aggregation pass of                 *)
(* scripts/03_feature_engineering.py, the inference-time vector builder of *)
(* app.py and the stage runner of run_pipeline.py.                         *)
(*                                                                         *)
(* Three specifications share the variables:                               *)
(*   Spec         - 03_feature_engineering.main, rolling star-power scores *)
(*   SpecApp      - app.py, the form widgets and the Predict button        *)
(*   SpecPipeline - run_pipeline.main over the five stage scripts          *)
(***************************************************************************)
EXTENDS Integers, Sequences, FiniteSets, TLC

VARIABLES
    \* ---- scripts/03_feature_engineering.py, main() ----
    pc,              \* position in main(): "sort", "loop", "done", "ZeroDivisionError", "idle"
    df,              \* the data frame: a sequence of rows
    idx,             \* index of the row df.iterrows() yields next (1-based)
    director_rev,    \* dict director -> cumulative revenue
    director_count,  \* dict director -> appearances
    actor_rev,       \* dict actor -> cumulative revenue
    actor_count,     \* dict actor -> appearances
    dir_scores,      \* list of director scores appended so far
    actor_scores,    \* list of actor scores appended so far
    df_director_score,  \* the column df['director_score'] (millions), <<>> until assigned
    df_actor_score,     \* the column df['actor_score'] (millions), <<>> until assigned
    \* ---- app.py ----
    feature_cols,    \* the list loaded from model_features.pkl
    budget,          \* number_input, millions
    runtime,         \* number_input, minutes
    season,          \* selectbox label
    is_franchise,    \* checkbox
    director_score,  \* number_input, millions
    actor_score,     \* number_input, millions
    primary_genre,   \* selectbox label
    clicked,         \* st.button(...) of the current script run
    input_data,      \* the dict built in the button branch ([keys, val]: insertion order, values)
    input_df,        \* pd.DataFrame([input_data]): [columns, row]
    \* ---- run_pipeline.py and the files the stage scripts read and write ----
    runner,          \* position in main(): "loop", "exit1" (sys.exit(1)), "success", "idle"
    script_idx,      \* index in PIPELINE of the script the for loop is at
    scripts,         \* the script files present in SCRIPTS_DIR
    files,           \* the data and model files present
    results,         \* the subprocess.run calls made: [script, had_input, returncode]
    removals         \* data files removed by others while the pipeline ran

aggVars == <<pc, df, idx, director_rev, director_count, actor_rev, actor_count,
             dir_scores, actor_scores, df_director_score, df_actor_score>>

appVars == <<feature_cols, budget, runtime, season, is_franchise, director_score,
             actor_score, primary_genre, clicked, input_data, input_df>>

pipeVars == <<runner, script_idx, scripts, files, results, removals>>

vars == <<aggVars, appVars, pipeVars>>

-----------------------------------------------------------------------------
(* Bounds of the model *)

\* number of rows of the input corpus
MaxMovies == 3

\* release dates of the corpus (ISO date strings compare like these ranks)
Dates == {1, 2}

\* inflation-adjusted revenues, in dollars
Revenues == {100000000, 200000000, 300000000}

\* a crew or cast cell of the clean file: missing (NaN), text that is no JSON,
\* or a JSON list of members
Missing == [kind |-> "nan", members |-> <<>>]
Malformed == [kind |-> "malformed", members |-> <<>>]
Json(members) == [kind |-> "json", members |-> members]

CrewInputs ==
    { Missing, Malformed, Json(<<>>),
      Json(<<[job |-> "Producer", name |-> "A"]>>),
      Json(<<[job |-> "Director", name |-> "A"]>>),
      Json(<<[job |-> "Producer", name |-> "A"], [job |-> "Director", name |-> "B"]>>),
      Json(<<[job |-> "Director", name |-> "A"], [job |-> "Director", name |-> "B"]>>) }

CastInputs ==
    { Missing, Malformed, Json(<<>>),
      Json(<<[name |-> "A"]>>),
      Json(<<[name |-> "A"], [name |-> "B"]>>) }

\* get_director(crew_str): the first crew member whose job is 'Director'
get_director(crew_str) ==
    IF crew_str.kind # "json" THEN "Unknown"
    ELSE LET crew == crew_str.members
             at == { i \in 1..Len(crew) : crew[i].job = "Director" }
         IN  IF at = {} THEN "Unknown"
             ELSE crew[CHOOSE i \in at : \A j \in at : i <= j].name

\* get_top_actor(cast_str): the first billed cast member
get_top_actor(cast_str) ==
    IF cast_str.kind # "json" THEN "Unknown"
    ELSE IF Len(cast_str.members) > 0 THEN cast_str.members[1].name
    ELSE "Unknown"

\* lines 88-89: the director and top_actor columns
Directors == { get_director(c) : c \in CrewInputs }
Actors == { get_top_actor(c) : c \in CastInputs }

-----------------------------------------------------------------------------
(* Numbers: Python floats are modelled as exact fractions in lowest terms *)

RECURSIVE GCD(_, _)
GCD(a, b) == IF b = 0 THEN a ELSE GCD(b, a % b)

Frac(n, d) == LET g == GCD(n, d) IN
              IF g = 0 THEN [num |-> 0, den |-> 1] ELSE [num |-> n \div g, den |-> d \div g]

\* the literal 0 appended on a first appearance
Zero == [num |-> 0, den |-> 1]

\* x / y on two numbers held as integers
TrueDiv(x, y) == Frac(x, y)

MILLION == 1000000

\* pd.Series(scores) / 1_000_000
ToMillions(scores) == [i \in 1..Len(scores) |->
                          Frac(scores[i].num, scores[i].den * MILLION)]

\* the empty dict {}
EmptyDict == [e \in {} |-> 0]

-----------------------------------------------------------------------------
(* df.sort_values('release_date').reset_index(drop=True)                   *)
(* The default kind is quicksort, which is not stable: rows with equal     *)
(* dates may come out in any relative order.                               *)

IsSortedByDate(rows) ==
    \A i, j \in 1..Len(rows) : i < j => rows[i].release_date <= rows[j].release_date

SortValues(rows) ==
    { [i \in 1..Len(rows) |-> rows[p[i]]] : p \in
        { q \in Permutations(1..Len(rows)) :
            IsSortedByDate([i \in 1..Len(rows) |-> rows[q[i]]]) } }

-----------------------------------------------------------------------------
(* The body of the for loop, one role at a time *)

\* the running sum appended without dividing by the appearance count
DirectorScoreOfUndivided(drev, dcount, d) ==
    IF d # "Unknown" /\ d \in DOMAIN drev
    THEN TrueDiv(drev[d], 1)
    ELSE Zero

\* lines 106-108, 112: the score appended for the director
DirectorScoreOf(drev, dcount, d) ==
    IF d # "Unknown" /\ d \in DOMAIN drev
    THEN TrueDiv(drev[d], dcount[d])
    ELSE Zero

\* the first-appearance branch without its 'if d != "Unknown"'
DirectorRevUpdateUnguarded(drev, d, rev) ==
    IF d # "Unknown" /\ d \in DOMAIN drev
    THEN [drev EXCEPT ![d] = @ + rev]
    ELSE (d :> rev) @@ drev

\* lines 109, 114: director_rev after the row
DirectorRevUpdate(drev, d, rev) ==
    IF d # "Unknown" /\ d \in DOMAIN drev
    THEN [drev EXCEPT ![d] = @ + rev]
    ELSE IF d # "Unknown" THEN (d :> rev) @@ drev ELSE drev

\* the record created with count 0 on the first appearance
DirectorCountUpdateFromZero(drev, dcount, d) ==
    IF d # "Unknown" /\ d \in DOMAIN drev
    THEN [dcount EXCEPT ![d] = @ + 1]
    ELSE IF d # "Unknown" THEN (d :> 0) @@ dcount ELSE dcount

\* "director_count[d] -= 1" on a further appearance
DirectorCountUpdateDecrement(drev, dcount, d) ==
    IF d # "Unknown" /\ d \in DOMAIN drev
    THEN [dcount EXCEPT ![d] = @ - 1]
    ELSE IF d # "Unknown" THEN (d :> 1) @@ dcount ELSE dcount

\* lines 110, 115: director_count after the row
DirectorCountUpdate(drev, dcount, d) ==
    IF d # "Unknown" /\ d \in DOMAIN drev
    THEN [dcount EXCEPT ![d] = @ + 1]
    ELSE IF d # "Unknown" THEN (d :> 1) @@ dcount ELSE dcount

\* lines 118-119, 123: the score appended for the lead actor
ActorScoreOf(arev, acount, a) ==
    IF a # "Unknown" /\ a \in DOMAIN arev
    THEN TrueDiv(arev[a], acount[a])
    ELSE Zero

\* "actor_rev[a] = rev" on a further appearance: the sum is overwritten
ActorRevUpdateOverwrite(arev, a, rev) ==
    IF a # "Unknown" /\ a \in DOMAIN arev
    THEN [arev EXCEPT ![a] = rev]
    ELSE IF a # "Unknown" THEN (a :> rev) @@ arev ELSE arev

\* lines 120, 125
ActorRevUpdate(arev, a, rev) ==
    IF a # "Unknown" /\ a \in DOMAIN arev
    THEN [arev EXCEPT ![a] = @ + rev]
    ELSE IF a # "Unknown" THEN (a :> rev) @@ arev ELSE arev

\* lines 121, 126
ActorCountUpdate(arev, acount, a) ==
    IF a # "Unknown" /\ a \in DOMAIN arev
    THEN [acount EXCEPT ![a] = @ + 1]
    ELSE IF a # "Unknown" THEN (a :> 1) @@ acount ELSE acount

\* the division of line 108 (resp. 119) would raise ZeroDivisionError
DivisionRaises(revmap, countmap, e) ==
    e # "Unknown" /\ e \in DOMAIN revmap /\ countmap[e] = 0

\* the ledgers and score lists as one value, and one iteration of the loop on it
Ledgers(drev, dcount, arev, acount, ds, as) ==
    [director_rev |-> drev, director_count |-> dcount,
     actor_rev |-> arev, actor_count |-> acount,
     dir_scores |-> ds, actor_scores |-> as]

\* the ledgers updated before the scores are read
ProcessRowWriteBeforeRead(st, row) ==
    LET d == row.director
        a == row.top_actor
        rev == row.revenue_adj
        drev == DirectorRevUpdate(st.director_rev, d, rev)
        dcount == DirectorCountUpdate(st.director_rev, st.director_count, d)
        arev == ActorRevUpdate(st.actor_rev, a, rev)
        acount == ActorCountUpdate(st.actor_rev, st.actor_count, a)
    IN  Ledgers(drev, dcount, arev, acount,
                Append(st.dir_scores, DirectorScoreOf(drev, dcount, d)),
                Append(st.actor_scores, ActorScoreOf(arev, acount, a)))

\* the actor branch tested and read against the director ledger
ProcessRowActorReadsDirectors(st, row) ==
    LET d == row.director
        a == row.top_actor
        rev == row.revenue_adj
    IN  Ledgers(DirectorRevUpdate(st.director_rev, d, rev),
                DirectorCountUpdate(st.director_rev, st.director_count, d),
                ActorRevUpdate(st.actor_rev, a, rev),
                ActorCountUpdate(st.actor_rev, st.actor_count, a),
                Append(st.dir_scores, DirectorScoreOf(st.director_rev, st.director_count, d)),
                Append(st.actor_scores, ActorScoreOf(st.director_rev, st.director_count, a)))

\* lines 100-126
ProcessRow(st, row) ==
    LET d == row.director
        a == row.top_actor
        rev == row.revenue_adj
    IN  Ledgers(DirectorRevUpdate(st.director_rev, d, rev),
                DirectorCountUpdate(st.director_rev, st.director_count, d),
                ActorRevUpdate(st.actor_rev, a, rev),
                ActorCountUpdate(st.actor_rev, st.actor_count, a),
                Append(st.dir_scores, DirectorScoreOf(st.director_rev, st.director_count, d)),
                Append(st.actor_scores, ActorScoreOf(st.actor_rev, st.actor_count, a)))

-----------------------------------------------------------------------------
(* scripts/03_feature_engineering.py, main(): the state machine *)

RowDomain == [release_date : Dates, director : Directors, top_actor : Actors,
              revenue_adj : Revenues]

\* the frame after steps 1-3 (lines 69-89), reduced to the columns the loop reads
InputFrames == [1..MaxMovies -> RowDomain]

AggInit ==
    /\ pc = "sort"
    /\ df \in InputFrames
    /\ idx = 0
    /\ director_rev = EmptyDict
    /\ director_count = EmptyDict
    /\ actor_rev = EmptyDict
    /\ actor_count = EmptyDict
    /\ dir_scores = <<>>
    /\ actor_scores = <<>>
    /\ df_director_score = <<>>
    /\ df_actor_score = <<>>

\* line 94-98
SortByDate ==
    /\ pc = "sort"
    /\ df' \in SortValues(df)
    /\ idx' = 1
    /\ pc' = "loop"
    /\ UNCHANGED <<director_rev, director_count, actor_rev, actor_count,
                   dir_scores, actor_scores, df_director_score, df_actor_score>>
    /\ UNCHANGED <<appVars, pipeVars>>

\* lines 100-126: one iteration of the for loop
IterRow ==
    /\ pc = "loop"
    /\ idx <= Len(df)
    /\ LET row == df[idx]
           st == Ledgers(director_rev, director_count, actor_rev, actor_count,
                         dir_scores, actor_scores)
       IN  IF \/ DivisionRaises(director_rev, director_count, row.director)
              \/ DivisionRaises(actor_rev, actor_count, row.top_actor)
           THEN /\ pc' = "ZeroDivisionError"
                /\ UNCHANGED <<df, idx, director_rev, director_count, actor_rev,
                               actor_count, dir_scores, actor_scores>>
           ELSE LET new == ProcessRow(st, row) IN
                /\ director_rev' = new.director_rev
                /\ director_count' = new.director_count
                /\ actor_rev' = new.actor_rev
                /\ actor_count' = new.actor_count
                /\ dir_scores' = new.dir_scores
                /\ actor_scores' = new.actor_scores
                /\ idx' = idx + 1
                /\ UNCHANGED <<pc, df>>
    /\ UNCHANGED <<df_director_score, df_actor_score>>
    /\ UNCHANGED <<appVars, pipeVars>>

\* lines 128-130: the loop is over, the columns are assigned in millions
AssignScores ==
    /\ pc = "loop"
    /\ idx > Len(df)
    /\ df_director_score' = ToMillions(dir_scores)
    /\ df_actor_score' = ToMillions(actor_scores)
    /\ pc' = "done"
    /\ UNCHANGED <<df, idx, director_rev, director_count, actor_rev, actor_count,
                   dir_scores, actor_scores>>
    /\ UNCHANGED <<appVars, pipeVars>>

Next == SortByDate \/ IterRow \/ AssignScores

-----------------------------------------------------------------------------
(* Training-time columns: 03_feature_engineering.py steps 1-2 and           *)
(* 05_modeling.py step 1, which fix the list saved as model_features.pkl   *)

Range(seq) == { seq[i] : i \in 1..Len(seq) }

\* get_season(month); a missing month is 0
get_season(month) ==
    IF month = 0 THEN "Unknown"
    ELSE IF month \in {5, 6, 7} THEN "Summer_Blockbuster"
    ELSE IF month \in {11, 12} THEN "Holiday_Season"
    ELSE IF month \in {1, 2, 8, 9} THEN "Dump_Months"
    ELSE "Spring_Fall"

\* get_dummies orders its columns alphabetically: the vocabularies in that order
SeasonLabelsSorted ==
    <<"Dump_Months", "Holiday_Season", "Spring_Fall", "Summer_Blockbuster", "Unknown">>
GenreNamesSorted ==
    <<"Action", "Adventure", "Animation", "Comedy", "Drama", "Horror",
      "Science Fiction", "Thriller", "Western">>

\* a historical corpus after feature engineering, reduced to the model's inputs
TrainingCorpus ==
    << [budget_adj |-> 50000000, runtime |-> 110, genres |-> <<"Action">>,
        release_month |-> 12, is_franchise |-> 1, director_score |-> 12, actor_score |-> 40],
       [budget_adj |-> 100000000, runtime |-> 120, genres |-> <<"Comedy", "Drama">>,
        release_month |-> 3, is_franchise |-> 0, director_score |-> 250, actor_score |-> 300],
       [budget_adj |-> 100000000, runtime |-> 110, genres |-> <<"Western">>,
        release_month |-> 4, is_franchise |-> 0, director_score |-> 0, actor_score |-> 0] >>

\* 03 lines 73-75: one genre_<name> column per genre name seen in the corpus
GenreDummyColumns(corpus) ==
    LET seen == UNION { Range(corpus[i].genres) : i \in 1..Len(corpus) }
        names == SelectSeq(GenreNamesSorted, LAMBDA g : g \in seen)
    IN  [i \in 1..Len(names) |-> "genre_" \o names[i]]

\* 03 lines 78-79: one season_<label> column per season label seen in the corpus
SeasonDummyColumns(corpus) ==
    LET seen == { get_season(corpus[i].release_month) : i \in 1..Len(corpus) }
        labels == SelectSeq(SeasonLabelsSorted, LAMBDA l : l \in seen)
    IN  [i \in 1..Len(labels) |-> "season_" \o labels[i]]

\* list(X.columns): the columns of the clean file that neither script drops, then
\* the dummies and the engineered columns in the order they were added
TrainSchema(corpus) ==
    <<"budget_adj", "runtime">> \o GenreDummyColumns(corpus) \o SeasonDummyColumns(corpus)
        \o <<"is_franchise", "director_score", "actor_score">>

\* the value of column `name` in the training row of movie m
TrainValue(m, name) ==
    IF name = "budget_adj" THEN m.budget_adj
    ELSE IF name = "runtime" THEN m.runtime
    ELSE IF name = "is_franchise" THEN m.is_franchise
    ELSE IF name = "director_score" THEN m.director_score
    ELSE IF name = "actor_score" THEN m.actor_score
    ELSE IF \E g \in Range(m.genres) : name = "genre_" \o g THEN 1
    ELSE IF name = "season_" \o get_season(m.release_month) THEN 1
    ELSE 0

TrainRow(m, corpus) ==
    LET cols == TrainSchema(corpus) IN [i \in 1..Len(cols) |-> TrainValue(m, cols[i])]

-----------------------------------------------------------------------------
(* app.py: the form and the button branch *)

SeasonOptions == <<"Summer Blockbuster", "Holiday Season", "Spring Fall", "Dump Months">>
GenreOptions == <<"Action", "Adventure", "Animation", "Comedy", "Drama",
                  "Science Fiction", "Horror", "Thriller">>

\* the season the form's help text assigns to a month
FormSeasonOfMonth(month) ==
    IF month \in {5, 6, 7} THEN "Summer Blockbuster"
    ELSE IF month \in {11, 12} THEN "Holiday Season"
    ELSE IF month \in {3, 4, 10} THEN "Spring Fall"
    ELSE "Dump Months"

\* values typed into the number inputs (all within the widgets' min and max)
BudgetInputs == {50, 100}
RuntimeInputs == {110, 120}
DirectorScoreInputs == {12, 250}
ActorScoreInputs == {40, 300}

\* a Python dict: its keys in insertion order and its values
EmptyInput == [keys |-> <<>>, val |-> EmptyDict]

\* d[k] = v
DictSet(d, k, v) ==
    IF k \in DOMAIN d.val
    THEN [d EXCEPT !.val[k] = v]
    ELSE [keys |-> Append(d.keys, k), val |-> (k :> v) @@ d.val]

\* {col: 0 for col in feature_cols}
RECURSIVE ZeroDictFrom(_, _, _)
ZeroDictFrom(d, cols, i) ==
    IF i > Len(cols) THEN d ELSE ZeroDictFrom(DictSet(d, cols[i], 0), cols, i + 1)

ZeroDict(cols) == ZeroDictFrom(EmptyInput, cols, 1)

\* lines 58-62
PopulateNumerical(d, b, r, f, ds, as) ==
    DictSet(DictSet(DictSet(DictSet(DictSet(d,
        "budget_adj", b * MILLION),
        "runtime", r),
        "is_franchise", IF f THEN 1 ELSE 0),
        "director_score", ds),
        "actor_score", as)

\* the indicator assigned whether or not the schema has the column
SetIndicatorUnguarded(d, prefix, label) == DictSet(d, prefix \o label, 1)

\* lines 65-67 and 69-71: col = f"{prefix}{label}"; if col in input_data: input_data[col] = 1
SetIndicator(d, prefix, label) ==
    IF (prefix \o label) \in DOMAIN d.val THEN DictSet(d, prefix \o label, 1) ELSE d

\* lines 55-71
BuildInputData(cols, b, r, s, f, ds, as, g) ==
    SetIndicator(
        SetIndicator(PopulateNumerical(ZeroDict(cols), b, r, f, ds, as), "season_", s),
        "genre_", g)

\* pd.DataFrame([input_data]): one row, the columns in the dict's key order
DataFrameOf(d) ==
    [columns |-> d.keys, row |-> [i \in 1..Len(d.keys) |-> d.val[d.keys[i]]]]

NoFrame == [columns |-> <<>>, row |-> <<>>]

\* the schema of the spec's scenario and the one the training scripts produce
ScenarioSchema ==
    <<"budget_adj", "runtime", "is_franchise", "director_score", "actor_score",
      "season_Holiday_Season", "genre_Action">>
TrainedSchema == TrainSchema(TrainingCorpus)

\* how many names a loaded schema may lack
MaxMissing == 1

WithoutNames(schema, S) == SelectSeq(schema, LAMBDA n : n \notin S)

Schemas ==
    { WithoutNames(base, S) :
        base \in {ScenarioSchema, TrainedSchema},
        S \in { T \in SUBSET (Range(ScenarioSchema) \cup Range(TrainedSchema)) :
                  Cardinality(T) <= MaxMissing } }

\* lines 13-21, 30-48: the schema is loaded, the widgets show their defaults
AppInit ==
    /\ feature_cols \in Schemas
    /\ budget = 100
    /\ runtime = 120
    /\ season = SeasonOptions[1]
    /\ is_franchise = FALSE
    /\ director_score = 250
    /\ actor_score = 300
    /\ primary_genre = GenreOptions[1]
    /\ clicked = FALSE
    /\ input_data = EmptyInput
    /\ input_df = NoFrame

\* a widget change reruns the script with the button not pressed
Rerun ==
    /\ clicked' = FALSE
    /\ input_data' = EmptyInput
    /\ input_df' = NoFrame
    /\ UNCHANGED <<aggVars, pipeVars, feature_cols>>

SetBudget ==
    /\ \E v \in BudgetInputs : v # budget /\ budget' = v
    /\ Rerun
    /\ UNCHANGED <<runtime, season, is_franchise, director_score, actor_score, primary_genre>>

SetRuntime ==
    /\ \E v \in RuntimeInputs : v # runtime /\ runtime' = v
    /\ Rerun
    /\ UNCHANGED <<budget, season, is_franchise, director_score, actor_score, primary_genre>>

SelectSeason ==
    /\ \E v \in Range(SeasonOptions) : v # season /\ season' = v
    /\ Rerun
    /\ UNCHANGED <<budget, runtime, is_franchise, director_score, actor_score, primary_genre>>

ToggleFranchise ==
    /\ is_franchise' = ~is_franchise
    /\ Rerun
    /\ UNCHANGED <<budget, runtime, season, director_score, actor_score, primary_genre>>

SetDirectorScore ==
    /\ \E v \in DirectorScoreInputs : v # director_score /\ director_score' = v
    /\ Rerun
    /\ UNCHANGED <<budget, runtime, season, is_franchise, actor_score, primary_genre>>

SetActorScore ==
    /\ \E v \in ActorScoreInputs : v # actor_score /\ actor_score' = v
    /\ Rerun
    /\ UNCHANGED <<budget, runtime, season, is_franchise, director_score, primary_genre>>

SelectGenre ==
    /\ \E v \in Range(GenreOptions) : v # primary_genre /\ primary_genre' = v
    /\ Rerun
    /\ UNCHANGED <<budget, runtime, season, is_franchise, director_score, actor_score>>

\* lines 51-74: the button is pressed, the vector is built
ClickPredict ==
    /\ clicked' = TRUE
    /\ input_data' = BuildInputData(feature_cols, budget, runtime, season, is_franchise,
                                    director_score, actor_score, primary_genre)
    /\ input_df' = DataFrameOf(input_data')
    /\ UNCHANGED <<aggVars, pipeVars, feature_cols, budget, runtime, season, is_franchise,
                   director_score, actor_score, primary_genre>>

AppNext ==
    \/ SetBudget \/ SetRuntime \/ SelectSeason \/ ToggleFranchise
    \/ SetDirectorScore \/ SetActorScore \/ SelectGenre \/ ClickPredict

-----------------------------------------------------------------------------
(* run_pipeline.py and the exit behaviour of the five stage scripts *)

PIPELINE == <<"01_fetch_data.py", "02_clean_data.py", "03_feature_engineering.py",
              "04_eda.py", "05_modeling.py">>

RAW == "data/raw/tmdb_movies_raw.csv"
CLEAN == "data/clean/tmdb_movies_clean.csv"
FEATURES == "data/clean/tmdb_movies_features.csv"
MODEL == "model.pkl, model_features.pkl"
DataFiles == {RAW, CLEAN, FEATURES, MODEL}

\* how many files others may remove during one run of the pipeline
MaxRemovals == 1

\* a script that ends by an uncaught exception exits 1; one whose main() returns exits 0
Crashed(fs) == [returncode |-> 1, files |-> fs]
Returned(fs) == [returncode |-> 0, files |-> fs]

\* 01_fetch_data.py: raises without an API key; else writes the raw file, year by year
Fetch(fs) == {Crashed(fs), Crashed(fs \cup {RAW}), Returned(fs \cup {RAW})}

\* a stage whose main() starts with "if not os.path.exists(INPUT_FILE): print(...); return"
\* and else reads the input and writes its outputs, unless a library call raises
GuardedStage(fs, input, outputs) ==
    IF input \notin fs
    THEN {Returned(fs)}
    ELSE {Crashed(fs), Returned(fs \cup outputs)}

\* 02_clean_data.py, lines 25-27 and 80
Clean(fs) == GuardedStage(fs, RAW, {CLEAN})

\* 03_feature_engineering.py, lines 65-67 and 140
FeatureEngineering(fs) == GuardedStage(fs, CLEAN, {FEATURES})

\* 04_eda.py, lines 16-18; its charts are not tracked
Eda(fs) == GuardedStage(fs, FEATURES, {})

\* 05_modeling.py, lines 35-37 and 109-110
Modeling(fs) == GuardedStage(fs, FEATURES, {MODEL})

\* the file a stage reads first ("" for the fetch stage, which reads none)
InputOf(k) == IF k = 2 THEN RAW ELSE IF k = 3 THEN CLEAN ELSE IF k >= 4 THEN FEATURES ELSE ""

\* subprocess.run([sys.executable, script_path]) for PIPELINE[k]
RunScript(k, fs) ==
    IF k = 1 THEN Fetch(fs)
    ELSE IF k = 2 THEN Clean(fs)
    ELSE IF k = 3 THEN FeatureEngineering(fs)
    ELSE IF k = 4 THEN Eda(fs)
    ELSE Modeling(fs)

PipeInit ==
    /\ runner = "loop"
    /\ script_idx = 1
    /\ scripts \in SUBSET Range(PIPELINE)
    /\ files \in SUBSET DataFiles
    /\ results = <<>>
    /\ removals = 0

\* lines 25-27: the script file is missing
ScriptMissing ==
    /\ runner = "loop"
    /\ script_idx <= Len(PIPELINE)
    /\ PIPELINE[script_idx] \notin scripts
    /\ runner' = "exit1"
    /\ UNCHANGED <<script_idx, scripts, files, results, removals, aggVars, appVars>>

\* the loop going on whatever the script's return code
RunStageIgnoringReturncode ==
    /\ runner = "loop"
    /\ script_idx <= Len(PIPELINE)
    /\ PIPELINE[script_idx] \in scripts
    /\ \E result \in RunScript(script_idx, files) :
          /\ files' = result.files
          /\ results' = Append(results,
                 [script |-> script_idx,
                  had_input |-> (script_idx = 1 \/ InputOf(script_idx) \in files),
                  returncode |-> result.returncode])
          /\ script_idx' = script_idx + 1
          /\ UNCHANGED runner
    /\ UNCHANGED <<scripts, removals, aggVars, appVars>>

\* lines 22-37: one iteration of the for loop on a script that exists
RunStage ==
    /\ runner = "loop"
    /\ script_idx <= Len(PIPELINE)
    /\ PIPELINE[script_idx] \in scripts
    /\ \E result \in RunScript(script_idx, files) :
          /\ files' = result.files
          /\ results' = Append(results,
                 [script |-> script_idx,
                  had_input |-> (script_idx = 1 \/ InputOf(script_idx) \in files),
                  returncode |-> result.returncode])
          /\ IF result.returncode # 0
             THEN runner' = "exit1" /\ UNCHANGED script_idx
             ELSE script_idx' = script_idx + 1 /\ UNCHANGED runner
    /\ UNCHANGED <<scripts, removals, aggVars, appVars>>

\* lines 39-42: the loop is over
ReportSuccess ==
    /\ runner = "loop"
    /\ script_idx > Len(PIPELINE)
    /\ runner' = "success"
    /\ UNCHANGED <<script_idx, scripts, files, results, removals, aggVars, appVars>>

\* between two stages somebody else removes a data file
RemoveFile ==
    /\ runner = "loop"
    /\ removals < MaxRemovals
    /\ \E f \in files : files' = files \ {f}
    /\ removals' = removals + 1
    /\ UNCHANGED <<runner, script_idx, scripts, results, aggVars, appVars>>

PipeNext == ScriptMissing \/ RunStage \/ ReportSuccess \/ RemoveFile

-----------------------------------------------------------------------------
(* The specifications *)

AggIdle ==
    /\ pc = "idle"
    /\ df = <<>>
    /\ idx = 0
    /\ director_rev = EmptyDict
    /\ director_count = EmptyDict
    /\ actor_rev = EmptyDict
    /\ actor_count = EmptyDict
    /\ dir_scores = <<>>
    /\ actor_scores = <<>>
    /\ df_director_score = <<>>
    /\ df_actor_score = <<>>

AppIdle ==
    /\ feature_cols = <<>>
    /\ budget = 0
    /\ runtime = 0
    /\ season = ""
    /\ is_franchise = FALSE
    /\ director_score = 0
    /\ actor_score = 0
    /\ primary_genre = ""
    /\ clicked = FALSE
    /\ input_data = EmptyInput
    /\ input_df = NoFrame

PipeIdle ==
    /\ runner = "idle"
    /\ script_idx = 0
    /\ scripts = {}
    /\ files = {}
    /\ results = <<>>
    /\ removals = 0

Init == AggInit /\ AppIdle /\ PipeIdle

Spec == Init /\ [][Next]_vars

InitApp == AggIdle /\ AppInit /\ PipeIdle

SpecApp == InitApp /\ [][AppNext]_vars

InitPipeline == AggIdle /\ AppIdle /\ PipeInit

SpecPipeline == InitPipeline /\ [][PipeNext]_vars

-----------------------------------------------------------------------------
(* The aggregation pass as a function of the sorted rows, for statements   *)
(* that compare the pass on two corpora                                    *)

NoLedgers == Ledgers(EmptyDict, EmptyDict, EmptyDict, EmptyDict, <<>>, <<>>)

RECURSIVE RunPassFrom(_, _, _)
RunPassFrom(st, rows, k) ==
    IF k > Len(rows) THEN st ELSE RunPassFrom(ProcessRow(st, rows[k]), rows, k + 1)

RunPass(rows) == RunPassFrom(NoLedgers, rows, 1)

\* rows with the k-th one deleted
DeleteAt(rows, k) == [i \in 1..(Len(rows) - 1) |-> IF i < k THEN rows[i] ELSE rows[i + 1]]

\* the rows processed before row j that feature the same entity in the role
PriorSame(rows, j, role) == { i \in 1..(j - 1) : rows[i][role] = rows[j][role] }

RECURSIVE SumRevenue(_, _)
SumRevenue(rows, S) ==
    IF S = {} THEN 0
    ELSE LET i == CHOOSE x \in S : TRUE
         IN  rows[i].revenue_adj + SumRevenue(rows, S \ {i})

-----------------------------------------------------------------------------
(* Claims on the aggregation pass (Spec) *)

\* the score of row j for a role, in millions, when the pass runs on the
\* sorted rows with row k deleted
ScoreWithout(rows, k, j, role) ==
    LET st == RunPass(DeleteAt(rows, k))
        jj == IF k < j THEN j - 1 ELSE j
    IN  IF role = "director" THEN ToMillions(st.dir_scores)[jj]
        ELSE ToMillions(st.actor_scores)[jj]

UnaffectedByDeletion(role, column) ==
    \A i, j, k \in 1..Len(df) :
        ( /\ df[i].release_date < df[j].release_date
          /\ df[i][role] = df[j][role]
          /\ df[j][role] # "Unknown"
          /\ k # j
          /\ df[k].release_date >= df[j].release_date )
        => ScoreWithout(df, k, j, role) = column[j]

\* C1: no leakage. For every entity E and movies M1 (earlier) and M2 (later)
\* featuring E, the score of M2 is the same when any other movie released on
\* or after M2's date (one with M2's own date included) is deleted from the
\* corpus.
C1_NoLeakage ==
    pc = "done" =>
        /\ UnaffectedByDeletion("director", df_director_score)
        /\ UnaffectedByDeletion("top_actor", df_actor_score)

MeanOfPrior(rows, j, role) ==
    Frac(SumRevenue(rows, PriorSame(rows, j, role)),
         Cardinality(PriorSame(rows, j, role)) * MILLION)

\* C2: a movie whose director (lead actor) is known and has earlier-processed
\* movies gets as score the sum of those movies' revenues divided by their
\* number, in millions; its own revenue is not part of it.
C2_ScoreIsPriorMean ==
    pc = "done" =>
        \A j \in 1..Len(df) :
            /\ (df[j].director # "Unknown" /\ PriorSame(df, j, "director") # {})
                   => df_director_score[j] = MeanOfPrior(df, j, "director")
            /\ (df[j].top_actor # "Unknown" /\ PriorSame(df, j, "top_actor") # {})
                   => df_actor_score[j] = MeanOfPrior(df, j, "top_actor")

\* three movies by director "A" with revenues 100, 200, 300 millions got 0, 100, 150
C2_Witness ==
    /\ pc = "done"
    /\ \A j \in 1..3 : df[j].director = "A" /\ df[j].revenue_adj = j * 100 * MILLION
    /\ SubSeq(df_director_score, 1, 3) =
           <<[num |-> 0, den |-> 1], [num |-> 100, den |-> 1], [num |-> 150, den |-> 1]>>

\* C3: the first movie, in processing order, featuring an entity of a ledger
\* gets score exactly 0 for that role, whatever the other entities' histories.
C3_FirstAppearanceZero ==
    pc = "done" =>
        \A j \in 1..Len(df) :
            /\ (df[j].director \in DOMAIN director_rev /\ PriorSame(df, j, "director") = {})
                   => df_director_score[j] = Zero
            /\ (df[j].top_actor \in DOMAIN actor_rev /\ PriorSame(df, j, "top_actor") = {})
                   => df_actor_score[j] = Zero

\* a new director "B" after movies by "A" that built a history
C3_Witness ==
    /\ pc = "done"
    /\ \E j \in 3..Len(df) :
          /\ df[j].director = "B"
          /\ \A i \in 1..(j - 1) : df[i].director = "A"
          /\ df_director_score[j] = Zero
          /\ df_director_score[j - 1] # Zero

\* the next iteration divides by the entity's count for this role
AboutToDivide(revmap, e) ==
    pc = "loop" /\ idx <= Len(df) /\ e # "Unknown" /\ e \in DOMAIN revmap

\* C9: whenever the pass is about to compute sum / count for an entity, the
\* entity's appearance count is at least 1; ZeroDivisionError is never raised.
C9_NoDivisionByZero ==
    /\ pc # "ZeroDivisionError"
    /\ (pc = "loop" /\ idx <= Len(df)) =>
          /\ AboutToDivide(director_rev, df[idx].director)
                => /\ df[idx].director \in DOMAIN director_count
                   /\ director_count[df[idx].director] >= 1
          /\ AboutToDivide(actor_rev, df[idx].top_actor)
                => /\ df[idx].top_actor \in DOMAIN actor_count
                   /\ actor_count[df[idx].top_actor] >= 1

C9_Witness ==
    /\ pc = "loop" /\ idx <= Len(df)
    /\ AboutToDivide(director_rev, df[idx].director)
    /\ AboutToDivide(actor_rev, df[idx].top_actor)

CountsGrow(count, countNext) ==
    \A e \in DOMAIN count : e \in DOMAIN countNext /\ countNext[e] >= count[e]

\* C10: at every step of the pass no entity's appearance count decreases and
\* no ledger record is deleted.
C10_MonotonicLedger ==
    [][ /\ CountsGrow(director_count, director_count')
        /\ CountsGrow(actor_count, actor_count')
        /\ DOMAIN director_rev \subseteq DOMAIN director_rev'
        /\ DOMAIN actor_rev \subseteq DOMAIN actor_rev' ]_vars

\* an entity seen three times: its record was created and updated twice
C10_Witness ==
    \E e \in DOMAIN director_count : director_count[e] = 3

\* the loop has just processed row df[idx]
RowProcessed == pc = "loop" /\ idx <= Len(df) /\ idx' = idx + 1

NoUnknownKey(ledger) == "Unknown" \notin DOMAIN ledger

\* C11: processing a movie whose director (lead actor) is "Unknown" appends
\* score 0 for that role and leaves the director (actor) ledger as it was;
\* "Unknown" never becomes a key of a ledger.
C11_UnknownIsNoOp ==
    [][ RowProcessed =>
          /\ df[idx].director = "Unknown" =>
                /\ dir_scores' = Append(dir_scores, Zero)
                /\ director_rev' = director_rev
                /\ director_count' = director_count
          /\ df[idx].top_actor = "Unknown" =>
                /\ actor_scores' = Append(actor_scores, Zero)
                /\ actor_rev' = actor_rev
                /\ actor_count' = actor_count
          /\ NoUnknownKey(director_rev') /\ NoUnknownKey(director_count')
          /\ NoUnknownKey(actor_rev') /\ NoUnknownKey(actor_count') ]_vars

\* a movie with neither director nor lead actor known was processed after one
\* that had created records in both ledgers
C11_Witness ==
    /\ pc = "loop"
    /\ idx = 3
    /\ df[1].director # "Unknown" /\ df[1].top_actor # "Unknown"
    /\ df[2].director = "Unknown" /\ df[2].top_actor = "Unknown"
    /\ DOMAIN director_rev = {df[1].director}
    /\ DOMAIN actor_rev = {df[1].top_actor}
    /\ dir_scores[2] = Zero /\ actor_scores[2] = Zero

\* the record of `name` is the same in the ledger (rev, count) before and after
SameRecord(rev, count, revNext, countNext, name) ==
    /\ (name \in DOMAIN rev) = (name \in DOMAIN revNext)
    /\ (name \in DOMAIN count) = (name \in DOMAIN countNext)
    /\ name \in DOMAIN rev => revNext[name] = rev[name]
    /\ name \in DOMAIN count => countNext[name] = count[name]

\* C12: the two ledgers are independent. A row changes the director ledger
\* only at its director and the actor ledger only at its lead actor, so a
\* name's appearances as director never touch its actor record, and vice
\* versa; a lead actor with no earlier row as lead actor gets actor score 0
\* whatever that name directed before (and likewise for a director).
C12_IndependentLedgers ==
    [][ RowProcessed =>
          /\ \A name \in Directors \cup Actors :
                /\ name # df[idx].top_actor =>
                      SameRecord(actor_rev, actor_count, actor_rev', actor_count', name)
                /\ name # df[idx].director =>
                      SameRecord(director_rev, director_count,
                                 director_rev', director_count', name)
          /\ PriorSame(df, idx, "top_actor") = {} =>
                actor_scores' = Append(actor_scores, Zero)
          /\ PriorSame(df, idx, "director") = {} =>
                dir_scores' = Append(dir_scores, Zero) ]_vars

\* "A" directed the first movie and is lead actor for the first time in the
\* second, directed by somebody else: actor score 0, one record per ledger
C12_Witness ==
    /\ pc = "loop"
    /\ idx = 3
    /\ df[1].director = "A" /\ df[1].top_actor = "Unknown"
    /\ df[2].director = "B" /\ df[2].top_actor = "A"
    /\ actor_scores[2] = Zero
    /\ director_rev["A"] = df[1].revenue_adj /\ director_count["A"] = 1
    /\ actor_rev["A"] = df[2].revenue_adj /\ actor_count["A"] = 1
    /\ df[1].revenue_adj # df[2].revenue_adj

\* rows in ascending date order, rows of equal date in their input order
RECURSIVE StableSortFrom(_, _)
StableSortFrom(rows, dates) ==
    IF dates = {} THEN <<>>
    ELSE LET d == CHOOSE x \in dates : \A y \in dates : x <= y
         IN  SelectSeq(rows, LAMBDA r : r.release_date = d)
                 \o StableSortFrom(rows, dates \ {d})

StableSort(rows) == StableSortFrom(rows, { rows[i].release_date : i \in 1..Len(rows) })

\* C14: the pass processes the movies in ascending release-date order, and
\* movies of equal release date in the relative order they had in the input.
C14_StableOrder ==
    [][ pc = "sort" => /\ IsSortedByDate(df')
                       /\ df' = StableSort(df) ]_vars

\* the processed rows featuring entity e in the role
Processed(role, e) == { i \in 1..(idx - 1) : df[i][role] = e }

ConsistentLedger(rev, count, role) ==
    /\ DOMAIN rev = DOMAIN count
    /\ DOMAIN rev = { df[i][role] : i \in 1..(idx - 1) } \ {"Unknown"}
    /\ \A e \in DOMAIN rev :
          /\ count[e] = Cardinality(Processed(role, e))
          /\ count[e] >= 1
          /\ rev[e] = SumRevenue(df, Processed(role, e))

\* C15: after any prefix of the sorted movies, in each ledger the sum map and
\* the count map have the same keys, every count is the number of processed
\* movies featuring the entity in that role (at least 1), every sum is the
\* total revenue of those movies, and one director score and one actor score
\* were emitted per processed movie.
C15_LedgerConsistency ==
    pc \in {"loop", "done"} =>
        /\ ConsistentLedger(director_rev, director_count, "director")
        /\ ConsistentLedger(actor_rev, actor_count, "top_actor")
        /\ Len(dir_scores) = idx - 1
        /\ Len(actor_scores) = idx - 1

\* the whole corpus processed, with a director and a lead actor seen twice or
\* more and revenues that differ
C15_Witness ==
    /\ pc = "done"
    /\ \E e \in DOMAIN director_count : director_count[e] >= 2
    /\ \E e \in DOMAIN actor_count : actor_count[e] = 3
    /\ df[1].revenue_adj # df[2].revenue_adj

-----------------------------------------------------------------------------
(* Claims on the inference-time builder (SpecApp) *)

\* C4: for every schema, one lacking some of the five numeric names included,
\* the built vector has exactly len(schema) entries, entry i is named
\* schema[i], and no entry has a name outside the schema.
C4_AlignedWithSchema ==
    clicked =>
        /\ Len(input_df.row) = Len(feature_cols)
        /\ input_df.columns = feature_cols
        /\ Range(input_df.columns) \subseteq Range(feature_cols)

\* the form filled in as in the spec's scenario (the director score is whatever
\* whole number the form holds: its number input returns no 12.5)
ScenarioInput ==
    /\ feature_cols = ScenarioSchema
    /\ season = "Holiday Season"
    /\ primary_genre = "Action"
    /\ is_franchise
    /\ budget = 50
    /\ runtime = 110
    /\ actor_score = 40

\* C5: with the scenario's schema and input the builder outputs
\* [50*scale, 110, 1, director_score, 40, 1, 1]: the entries
\* season_Holiday_Season and genre_Action are both 1.
C5_ScenarioVector ==
    (clicked /\ ScenarioInput) =>
        input_df.row = <<50 * MILLION, 110, 1, director_score, 40, 1, 1>>

\* every name a category family can have: the prefix and a label of the form
\* or of the training vocabulary
SeasonFamily ==
    { "season_" \o l : l \in Range(SeasonOptions) \cup Range(SeasonLabelsSorted) }
GenreFamily ==
    { "genre_" \o g : g \in Range(GenreOptions) \cup Range(GenreNamesSorted) }

\* the frame the builder returns for the current form with the two labels replaced
FrameFor(s, g) ==
    DataFrameOf(BuildInputData(feature_cols, budget, runtime, s, is_franchise,
                               director_score, actor_score, g))

\* the entries of a frame outside a family, as <<name, value>> in order
Outside(frame, family) ==
    LET keep == SelectSeq([i \in 1..Len(frame.columns) |-> i],
                          LAMBDA i : frame.columns[i] \notin family)
    IN  [k \in 1..Len(keep) |-> <<frame.columns[keep[k]], frame.row[keep[k]]>>]

FamilyAllZero(frame, family) ==
    \A i \in 1..Len(frame.columns) : frame.columns[i] \in family => frame.row[i] = 0

\* C6: when the constructed season (genre) indicator name is absent from the
\* schema, the builder returns a vector whose season_* (genre_*) entries are
\* all 0 and whose other entries are those it returns for any other label.
C6_UnknownCategory ==
    clicked =>
        /\ ("season_" \o season) \notin Range(feature_cols) =>
              /\ FamilyAllZero(input_df, SeasonFamily)
              /\ \A s2 \in Range(SeasonOptions) :
                    Outside(FrameFor(s2, primary_genre), SeasonFamily)
                        = Outside(input_df, SeasonFamily)
        /\ ("genre_" \o primary_genre) \notin Range(feature_cols) =>
              /\ FamilyAllZero(input_df, GenreFamily)
              /\ \A g2 \in Range(GenreOptions) :
                    Outside(FrameFor(season, g2), GenreFamily)
                        = Outside(input_df, GenreFamily)

\* an unlisted genre and season with a schema that has entries of both families,
\* one of them for a genre the form does offer
C6_Witness ==
    /\ clicked
    /\ ("season_" \o season) \notin Range(feature_cols)
    /\ ("genre_" \o primary_genre) \notin Range(feature_cols)
    /\ "genre_Action" \in Range(input_df.columns)
    /\ "season_Holiday_Season" \in Range(input_df.columns)
    /\ Len(input_df.row) = Len(feature_cols)

\* the form reproduces the feature values of historical movie m
Reproduces(m) ==
    /\ budget * MILLION = m.budget_adj
    /\ runtime = m.runtime
    /\ is_franchise = (m.is_franchise = 1)
    /\ director_score = m.director_score
    /\ actor_score = m.actor_score
    /\ season = FormSeasonOfMonth(m.release_month)
    /\ primary_genre = m.genres[1]

\* C7: for a historical movie with a single genre the form offers, a live
\* input that reproduces its values yields the vector computed for it at
\* training time under the persisted schema.
C7_RoundTrip ==
    (clicked /\ feature_cols = TrainedSchema) =>
        \A k \in 1..Len(TrainingCorpus) :
            LET m == TrainingCorpus[k] IN
            ( /\ Len(m.genres) = 1
              /\ m.genres[1] \in Range(GenreOptions)
              /\ Reproduces(m) )
            => /\ input_df.columns = TrainedSchema
               /\ input_df.row = TrainRow(m, TrainingCorpus)

-----------------------------------------------------------------------------
(* Claims on the pipeline runner (SpecPipeline) *)

\* the stage run recorded in r found its input file missing
MissingCorpus(r) == r.script \in {3, 5} /\ ~r.had_input

\* C8: when the input file of the feature-engineering stage (or of the
\* modeling stage) does not exist, the stage exits non-zero, so the runner
\* stops and never reports the pipeline as executed successfully.
C8_MissingCorpusFails ==
    \A i \in 1..Len(results) :
        MissingCorpus(results[i]) =>
            /\ results[i].returncode # 0
            /\ runner # "success"

\* the script of a recorded run, and of every run before it, exists
ScriptsPresentUpTo(k) == \A j \in 1..k : PIPELINE[j] \in scripts

\* C13: a stage is started only after every earlier stage of the fixed order
\* has finished with exit code 0; once a stage exits non-zero or a script file
\* is missing no later stage is started, and the runner does not report
\* success.
C13_StagesInOrder ==
    /\ \A i \in 1..Len(results) :
          /\ results[i].script = i
          /\ ScriptsPresentUpTo(i)
          /\ \A j \in 1..(i - 1) : results[j].returncode = 0
          /\ results[i].returncode # 0 => (i = Len(results) /\ runner = "exit1")
    /\ \A k \in 1..Len(PIPELINE) :
          PIPELINE[k] \notin scripts => (Len(results) < k /\ runner # "success")
    /\ runner = "success" =>
          /\ Len(results) = Len(PIPELINE)
          /\ \A i \in 1..Len(results) : results[i].returncode = 0

\* the second stage exited non-zero although every script is there: the runner
\* stopped with two runs made
C13_Witness ==
    /\ runner = "exit1"
    /\ scripts = Range(PIPELINE)
    /\ Len(results) = 2
    /\ results[1].returncode = 0
    /\ results[2].returncode # 0

====
